---------------------------- MODULE Spec2Model ----------------------------
(***************************************************************************)
(* Model of the temporally-extended action engine of the HRL highway agent *)
(* (FYP/agent_components/actions/HRL): the CustomActions dispatcher, the   *)
(* LaneChanger and SpeedChanger subpolicies, and an abstraction of the     *)
(* highway simulator they drive.                                           *)
(*                                                                         *)
(* Units.  All quantities are integers:                                    *)
(*   speed      SpeedScale units per m/s                                   *)
(*   x          PosScale   units per m                                     *)
(*   y, offset  LatScale   units per m                                     *)
(*   commanded acceleration in tenths (0.1 -> 1, -0.1 -> -1, 0 -> 0)       *)
(*   commanded steering as the fraction (n * 0.5) / d, kept as [n, d]      *)
(* Comparisons against 1/policy_frequency are done by multiplying both     *)
(* sides by policy_frequency, so no rounding occurs.                       *)
(***************************************************************************)
EXTENDS Integers, Sequences, FiniteSets, TLC

(***************************************************************************)
(* Bounds of the model                                                     *)
(***************************************************************************)
MaxFrequency == 2      \* low policy frequencies 1..MaxFrequency next to the configured one
MaxTicks == 6          \* low-level ticks simulated in a run
MaxHL == 2             \* step calls that reach their controller in a run
MaxEpisodes == 1       \* reset calls
Duration == 5          \* ticks after which the simulator reports truncated
MaxActionId == 5       \* action ids -1..MaxActionId are passed to step

(***************************************************************************)
(* Configuration and simulator constants                                   *)
(***************************************************************************)
lanes_count == 5       \* config['lanes_count']
MIN_SPEED == -40       \* Vehicle.MIN_SPEED of the simulator [m/s]
MAX_SPEED == 40        \* Vehicle.MAX_SPEED of the simulator [m/s]
LANE_WIDTH == 4        \* width of a lane of the simulator's road [m]

config_policy_frequency == 15     \* config['policy_frequency'] [Hz]

\* the configured frequency and the low frequencies 1..MaxFrequency
PolicyFrequencies == (1..MaxFrequency) \cup {config_policy_frequency}

RECURSIVE Lcm(_, _)
Lcm(n, k) == IF \A f \in PolicyFrequencies : (n * k) % f = 0
             THEN n * k ELSE Lcm(n, k + 1)

FrequencyLcm == Lcm(1, 1)

SpeedScale == 2 * FrequencyLcm
PosScale == SpeedScale * FrequencyLcm
LatScale == FrequencyLcm

Sign(n) == IF n > 0 THEN 1 ELSE IF n < 0 THEN -1 ELSE 0
Abs(n) == IF n < 0 THEN -n ELSE n
Clamp(n, lo, hi) == IF n < lo THEN lo ELSE IF n > hi THEN hi ELSE n

RECURSIVE SumSeq(_)
SumSeq(s) == IF s = << >> THEN 0 ELSE Head(s) + SumSeq(Tail(s))

VARIABLES
    policy_frequency,   \* config['policy_frequency']
    vehicle,            \* env.unwrapped.vehicle
    time,               \* simulator ticks since the last env.reset
    HL_step_count,
    LL_step_count,
    timesteps_HL,
    timesteps_LL,
    episode_count,
    pc,                 \* position of the caller in CustomActions.step
    changer,            \* the controller of the running macro-step
    tick,               \* (obs, reward, terminated, truncated, info) of the last changer.step()
    cumulative_reward,
    ret,                \* what the last CustomActions.step call returned
    call,               \* record of the running / last step call (observation only)
    shaper              \* the CustomReward wrapper and the vehicle it looks at

vars == << policy_frequency, vehicle, time, HL_step_count, LL_step_count,
           timesteps_HL, timesteps_LL, episode_count, pc, changer, tick,
           cumulative_reward, ret, call, shaper >>

(***************************************************************************)
(* Vehicle state queried by the core                                       *)
(***************************************************************************)
leftmost_lane == 0
rightmost_lane == lanes_count - 1

LaneWidthUnits == LANE_WIDTH * LatScale

\* lane_index[2]: index of the lane whose centre is closest to y
LaneOf(y) == Clamp((2 * y + LaneWidthUnits) \div (2 * LaneWidthUnits),
                   leftmost_lane, rightmost_lane)

\* lane_offset[1]: lateral offset from the centre of the current lane
LaneOffset(y) == y - LaneOf(y) * LaneWidthUnits

OnRoad(y) == 2 * Abs(LaneOffset(y)) <= LaneWidthUnits

NoSteering == [n |-> 0, d |-> 1]

\* lane_position_tolerance > lane_offset[1] > -lane_position_tolerance with
\* lane_position_tolerance = (1 / policy_frequency) * 1.5, both sides
\* multiplied by 2 * policy_frequency
WithinLaneTolerance(offset, f) ==
    /\ 3 * LatScale > 2 * f * offset
    /\ 2 * f * offset > -(3 * LatScale)

(***************************************************************************)
(* LaneChanger                                                             *)
(***************************************************************************)
\* LaneChanger.__init__(env, change, distance); distance 0 stands for the
\* default None, which `distance or 0` turns into 0
LaneChanger(v, change, distance) ==
    [ kind             |-> "LaneChanger",
      change           |-> change,
      destination_lane |-> LaneOf(v.y) + change,
      step_count       |-> 0,
      vehicle_posX     |-> v.x,
      target_distance  |-> distance ]

\* first assignment of LaneChanger.done
LaneAligned(c, v, f) ==
    /\ c.destination_lane = LaneOf(v.y)
    /\ WithinLaneTolerance(LaneOffset(v.y), f)

\* variant: the covered distance is not looked at
LaneChanger_done_aligned_only(c, v, f) == LaneAligned(c, v, f)

\* value returned by LaneChanger.done
LaneChanger_done(c, v, f) ==
    IF LaneAligned(c, v, f) /\ c.change = 0
    THEN v.x - c.vehicle_posX >= c.target_distance
    ELSE LaneAligned(c, v, f)

\* variant: the steering is reset, the heading is kept
reset_after_change_steering_only(v) == [v EXCEPT !.steering = NoSteering]

\* variant: nothing is reset
reset_after_change_none(v) == v

reset_after_change(v) == [v EXCEPT !.heading = 0, !.steering = NoSteering]

\* variant: heading and steering are reset whenever the vehicle is aligned
LaneChanger_done_effect_any_change(c, v, f) ==
    IF LaneAligned(c, v, f)
    THEN reset_after_change(v)
    ELSE v

\* vehicle state left behind by one evaluation of LaneChanger.done
LaneChanger_done_effect(c, v, f) ==
    IF LaneAligned(c, v, f) /\ c.change # 0
    THEN reset_after_change(v)
    ELSE v

\* the division 0.5 / speed in LaneChanger.choose_action
LaneChanger_faults(c, v) ==
    /\ c.destination_lane - LaneOf(v.y) # 0
    /\ v.speed = 0

\* variant: the steering turns away from the destination lane
LaneChanger_choose_action_reversed(c, v) ==
    LET lane_difference == c.destination_lane - LaneOf(v.y)
    IN  [ acceleration |-> v.acceleration,
          steering     |-> IF lane_difference > 0 THEN [n |-> -1, d |-> v.speed]
                           ELSE IF lane_difference < 0 THEN [n |-> 1, d |-> v.speed]
                           ELSE NoSteering ]

LaneChanger_choose_action(c, v) ==
    LET lane_difference == c.destination_lane - LaneOf(v.y)
    IN  [ acceleration |-> v.acceleration,
          steering     |-> IF lane_difference > 0 THEN [n |-> 1, d |-> v.speed]
                           ELSE IF lane_difference < 0 THEN [n |-> -1, d |-> v.speed]
                           ELSE NoSteering ]

(***************************************************************************)
(* SpeedChanger                                                            *)
(***************************************************************************)
\* SpeedChanger.__init__(env, change)
SpeedChanger(v, change) ==
    [ kind          |-> "SpeedChanger",
      change        |-> change,
      desired_speed |-> v.speed + change * SpeedScale,
      step_count    |-> 0 ]

\* variant: desired_speed - speed_offset / 2 < speed <= desired_speed
SpeedChanger_done_half_open(c, v, f) ==
    /\ 2 * f * c.desired_speed - SpeedScale < 2 * f * v.speed
    /\ v.speed <= c.desired_speed

\* desired_speed - speed_offset <= speed <= desired_speed with
\* speed_offset = 1 / policy_frequency, first comparison multiplied by
\* policy_frequency
SpeedChanger_done(c, v, f) ==
    /\ f * c.desired_speed - SpeedScale <= f * v.speed
    /\ v.speed <= c.desired_speed

SpeedChanger_done_effect(c, v, f) ==
    IF SpeedChanger_done(c, v, f)
    THEN [v EXCEPT !.acceleration = 0]
    ELSE v

\* variant: the comparison with desired_speed is reversed
SpeedChanger_choose_action_reversed(c, v) ==
    [ acceleration |-> IF v.speed < c.desired_speed THEN -1
                       ELSE IF v.speed > c.desired_speed THEN 1
                       ELSE 0,
      steering     |-> v.steering ]

\* variant: no branch holds the speed
SpeedChanger_choose_action_never_holds(c, v) ==
    [ acceleration |-> IF v.speed <= c.desired_speed THEN 1 ELSE -1,
      steering     |-> v.steering ]

SpeedChanger_choose_action(c, v) ==
    [ acceleration |-> IF v.speed < c.desired_speed THEN 1
                       ELSE IF v.speed > c.desired_speed THEN -1
                       ELSE 0,
      steering     |-> v.steering ]

(***************************************************************************)
(* Dispatch over the controller kind                                       *)
(***************************************************************************)
done(c, v, f) ==
    IF c.kind = "LaneChanger" THEN LaneChanger_done(c, v, f)
    ELSE SpeedChanger_done(c, v, f)

done_effect(c, v, f) ==
    IF c.kind = "LaneChanger" THEN LaneChanger_done_effect(c, v, f)
    ELSE SpeedChanger_done_effect(c, v, f)

faults(c, v) == c.kind = "LaneChanger" /\ LaneChanger_faults(c, v)

choose_action(c, v) ==
    IF c.kind = "LaneChanger" THEN LaneChanger_choose_action(c, v)
    ELSE SpeedChanger_choose_action(c, v)

(***************************************************************************)
(* The simulator (external): one tick of env.step(primitive_action)        *)
(***************************************************************************)
\* vehicle after one tick at 1 / f seconds: forward Euler on position, then
\* heading follows the sign of the steering rate, speed follows the
\* commanded acceleration (0.1 commands 0.5 m/s^2) and is kept in
\* [MIN_SPEED, MAX_SPEED]
env_move(v, a, f, crash) ==
    [ x            |-> v.x + v.speed * (FrequencyLcm \div f),
      y            |-> v.y + v.heading * Sign(v.speed) * (LatScale \div f),
      heading      |-> Clamp(v.heading
                             + Sign(a.steering.n) * Sign(a.steering.d) * Sign(v.speed),
                             -1, 1),
      speed        |-> Clamp(v.speed + a.acceleration * (FrequencyLcm \div f),
                             MIN_SPEED * SpeedScale, MAX_SPEED * SpeedScale),
      crashed      |-> crash,
      acceleration |-> a.acceleration,
      steering     |-> a.steering ]

\* reward of the simulator for the state reached by a tick
env_reward(v) ==
    IF v.crashed \/ ~OnRoad(v.y) THEN 0 ELSE 1 + LaneOf(v.y)

\* the tuple env.step returns for the state v reached at tick t
env_result(v, t) ==
    [ obs        |-> [x |-> v.x, y |-> v.y, vx |-> v.speed],
      reward     |-> env_reward(v),
      terminated |-> v.crashed \/ ~OnRoad(v.y),
      truncated  |-> t >= Duration,
      info       |-> [speed |-> v.speed, crashed |-> v.crashed] ]

\* vehicle created by env.reset: centred in lane l, straight, no command
env_vehicle(l, s) ==
    [ x |-> 0, y |-> l * LaneWidthUnits, heading |-> 0, speed |-> s,
      crashed |-> FALSE, acceleration |-> 0, steering |-> NoSteering ]

Lanes == leftmost_lane..rightmost_lane

\* speeds the vehicle is given before the first step: the simulator default
\* 25 m/s, the two limits (as set by the tests) and standstill
InitSpeeds == { MIN_SPEED * SpeedScale, 0, 25 * SpeedScale,
                MAX_SPEED * SpeedScale }

ResetSpeeds == { 25 * SpeedScale }

NoTick == [ obs |-> [x |-> 0, y |-> 0, vx |-> 0], reward |-> 0,
            terminated |-> FALSE, truncated |-> FALSE,
            info |-> [speed |-> 0, crashed |-> FALSE] ]

NoReturn == [ obs |-> [x |-> 0, y |-> 0, vx |-> 0], cumulative_reward |-> 0,
              terminated |-> FALSE, truncated |-> FALSE,
              info |-> [ speed |-> 0, crashed |-> FALSE, HL_step_count |-> 0,
                         LL_step_count |-> 0, pos_x |-> 0, pos_y |-> 0 ] ]

NoChanger == [ kind |-> "none" ]

NoCall == [ active |-> FALSE, returned |-> FALSE, action |-> 0,
            requested |-> NoChanger, created |-> NoChanger,
            changer |-> NoChanger, done |-> FALSE,
            start |-> env_vehicle(0, 0), HL0 |-> 0, LL0 |-> 0,
            rewards |-> << >>, issued |-> << >>, results |-> << >>,
            ticks |-> 0, n |-> 0, over |-> FALSE ]

(***************************************************************************)
(* CustomActions                                                           *)
(***************************************************************************)
Actions == 0..4

\* action ids with no entry in self.subpolicies
UnknownActions == (-1..MaxActionId) \ Actions

\* variant: the two lane changes are exchanged
subpolicies_swapped(action, v) ==
    CASE action = 0 -> LaneChanger(v, 0, 10 * PosScale)
      [] action = 1 -> LaneChanger(v, 1, 0)
      [] action = 2 -> LaneChanger(v, -1, 0)
      [] action = 3 -> SpeedChanger(v, -1)
      [] action = 4 -> SpeedChanger(v, 1)

\* HL_actions: the subpolicy constructed for an action id
subpolicies(action, v) ==
    CASE action = 0 -> LaneChanger(v, 0, 10 * PosScale)
      [] action = 1 -> LaneChanger(v, -1, 0)
      [] action = 2 -> LaneChanger(v, 1, 0)
      [] action = 3 -> SpeedChanger(v, -1)
      [] action = 4 -> SpeedChanger(v, 1)

\* variant: the right bound is taken exclusive
lane_change_possible_exclusive(v, change) ==
    LET destination_lane == LaneOf(v.y) + change
    IN  leftmost_lane <= destination_lane /\ destination_lane < rightmost_lane

lane_change_possible(v, change) ==
    LET destination_lane == LaneOf(v.y) + change
    IN  leftmost_lane <= destination_lane /\ destination_lane <= rightmost_lane

\* variant: the bounds are taken exclusive
speed_change_possible_exclusive(v, change) ==
    LET destination_speed == v.speed + change * SpeedScale
    IN  /\ MIN_SPEED * SpeedScale < destination_speed
        /\ destination_speed < MAX_SPEED * SpeedScale

speed_change_possible(v, change) ==
    LET destination_speed == v.speed + change * SpeedScale
    IN  /\ MIN_SPEED * SpeedScale <= destination_speed
        /\ destination_speed <= MAX_SPEED * SpeedScale

\* variant: the request is executed as it is
adjust_none(c, v) == c

\* variant: only the speed request is validated
adjust_speed_only(c, v) ==
    IF c.kind = "SpeedChanger" /\ ~speed_change_possible(v, c.change)
    THEN SpeedChanger(v, 0)
    ELSE c

\* variant: only the lane request is validated
adjust_lane_only(c, v) ==
    IF c.kind = "LaneChanger" /\ ~lane_change_possible(v, c.change)
    THEN LaneChanger(v, 0, 0)
    ELSE c

\* the two isinstance checks at the top of CustomActions.step
adjust(c, v) ==
    IF c.kind = "LaneChanger" /\ ~lane_change_possible(v, c.change)
    THEN LaneChanger(v, 0, 0)
    ELSE IF c.kind = "SpeedChanger" /\ ~speed_change_possible(v, c.change)
    THEN SpeedChanger(v, 0)
    ELSE c

\* variant: the loop only looks at the controller
loop_continues_until_done(c, v, f, terminated) == ~done(c, v, f)

\* variant: the loop body never runs, the macro-step is the first tick
loop_continues_never(c, v, f, terminated) == FALSE

\* condition of the while loop, evaluated on the state after a tick
loop_continues(c, v, f, terminated) == ~done(c, v, f) /\ ~terminated

\* variant: cumulative_reward = reward
accumulate_last(cumulative, reward) == reward

\* cumulative_reward += reward
accumulate(cumulative, reward) == cumulative + reward

\* variant: the ticks of the controller are not added
add_LL_none(count, c) == count

\* variant: one low-level step is counted per macro-step
add_LL_one(count, c) == count + 1

\* self.LL_step_count += changer.step_count (same for timesteps_LL)
add_LL(count, c) == count + c.step_count

\* variant: the high-level counter advances by the number of ticks
add_HL_ticks(count, c) == count + c.step_count

\* self.HL_step_count += 1 (same for timesteps_HL)
add_HL(count, c) == count + 1

\* variant: observation and info are those of the first tick
step_result_first_tick(t, cumulative, hl, ll) ==
    [ obs               |-> call.results[1].obs,
      cumulative_reward |-> cumulative,
      terminated        |-> t.terminated,
      truncated         |-> t.truncated,
      info              |-> [ speed         |-> call.results[1].info.speed,
                              crashed       |-> call.results[1].info.crashed,
                              HL_step_count |-> hl,
                              LL_step_count |-> ll,
                              pos_x         |-> call.results[1].obs.x,
                              pos_y         |-> call.results[1].obs.y ] ]

\* the tuple CustomActions.step returns: the last tick's values, info
\* extended with the counters and the position read from obs
step_result(t, cumulative, hl, ll) ==
    [ obs               |-> t.obs,
      cumulative_reward |-> cumulative,
      terminated        |-> t.terminated,
      truncated         |-> t.truncated,
      info              |-> [ speed         |-> t.info.speed,
                              crashed       |-> t.info.crashed,
                              HL_step_count |-> hl,
                              LL_step_count |-> ll,
                              pos_x         |-> t.obs.x,
                              pos_y         |-> t.obs.y ] ]

\* variant: the low-level counter survives the reset
reset_counters_keep_LL(hl, ll, episodes) ==
    [ HL_step_count |-> 0, LL_step_count |-> ll, episode_count |-> episodes + 1 ]

\* counters after CustomActions.reset
reset_counters(hl, ll, episodes) ==
    [ HL_step_count |-> 0, LL_step_count |-> 0, episode_count |-> episodes + 1 ]

(***************************************************************************)
(* CustomReward                                                            *)
(*                                                                         *)
(* The vehicle the wrapper looks at is [y, speed, cos_heading, crashed]:   *)
(* cos_heading is cos(heading) in units of 1 / CosScale.  The components   *)
(* are integers: right_lane_reward in units of 1 / LaneOne,                *)
(* high_speed_reward in units of 1 / SpeedOne, the weights in tenths and   *)
(* the reward in units of 1 / RewardOne.                                   *)
(***************************************************************************)
reward_speed_range == << 20, 30 >>   \* config['reward_speed_range'] [m/s]
right_lane_weight == 1               \* config['right_lane_reward'] = 0.1
high_speed_weight == 4               \* config['high_speed_reward'] = 0.4

CosScale == 2

\* max(len(neighbours) - 1, 1)
LaneOne == IF lanes_count - 1 > 1 THEN lanes_count - 1 ELSE 1

SpeedOne ==
    CosScale * (reward_speed_range[2] - reward_speed_range[1]) * SpeedScale

RewardOne == 10 * LaneOne * SpeedOne

\* self.right_lane_reward = 0, self.high_speed_reward = 0
CustomReward(v, normalize) ==
    [ vehicle           |-> v,
      normalize_reward  |-> normalize,
      right_lane_reward |-> 0,
      high_speed_reward |-> 0,
      reward            |-> 0,
      stepped           |-> FALSE ]

NoShaper ==
    CustomReward([y |-> 0, speed |-> 0, cos_heading |-> CosScale,
                  crashed |-> FALSE], FALSE)

\* utils.lmap(speed * cos(heading), reward_speed_range, [0, 1])
scaled_speed(v) ==
    v.speed * v.cos_heading - CosScale * reward_speed_range[1] * SpeedScale

calculate_lane_reward(v, f) ==
    IF WithinLaneTolerance(LaneOffset(v.y), f) THEN LaneOf(v.y) ELSE 0

\* variant: plain clipping to [0, 1]
calculate_speed_reward_clipped(v) == Clamp(scaled_speed(v), 0, SpeedOne)

calculate_speed_reward(v) ==
    IF scaled_speed(v) > SpeedOne THEN 0
    ELSE Clamp(scaled_speed(v), 0, SpeedOne)

\* variant: the crash factor is left out
compute_final_reward_on_road_only(v, right_lane, high_speed, normalize) ==
    LET weighted == right_lane_weight * right_lane * SpeedOne
                        + high_speed_weight * high_speed * LaneOne
        reward == IF normalize
                  THEN (10 * weighted) \div (high_speed_weight + right_lane_weight)
                  ELSE weighted
    IN  reward * (IF OnRoad(v.y) THEN 1 ELSE 0)

\* weighted sum, utils.lmap(reward, [0, sum of the weights], [0, 1]) when
\* normalize_reward is set, then the factors on_road and not crashed
compute_final_reward(v, right_lane, high_speed, normalize) ==
    LET weighted == right_lane_weight * right_lane * SpeedOne
                        + high_speed_weight * high_speed * LaneOne
        reward == IF normalize
                  THEN (10 * weighted) \div (high_speed_weight + right_lane_weight)
                  ELSE weighted
    IN  reward * (IF OnRoad(v.y) THEN 1 ELSE 0) * (IF v.crashed THEN 0 ELSE 1)

\* vehicles handed to the wrapper: lane centres and offsets of 1 m and 2 m,
\* one position beyond each edge of the road, speeds over the whole range
RewardYs ==
    { l * LaneWidthUnits + o * LatScale : l \in Lanes, o \in {0, 1, 2} }
        \cup { -(LaneWidthUnits \div 2) - 1,
               rightmost_lane * LaneWidthUnits + (LaneWidthUnits \div 2) + 1 }

RewardSpeeds ==
    { s * SpeedScale : s \in {MIN_SPEED, 0, 20, 25, 30, 35, MAX_SPEED} }

\* cos(heading) for headings 0, pi/3, pi/2 and pi
RewardCosines == { CosScale, 1, 0, -CosScale }

RewardVehicles ==
    [ y : RewardYs, speed : RewardSpeeds, cos_heading : RewardCosines,
      crashed : {FALSE} ]

\* variant: the high-level step is counted before the lookup
failed_lookup_counters_counted(hl, ll, hl_total, ll_total) ==
    [ HL_step_count |-> hl + 1, LL_step_count |-> ll,
      timesteps_HL |-> hl_total + 1, timesteps_LL |-> ll_total ]

\* counters after a step whose lookup self.subpolicies[int(action)] raised:
\* the lookup is the first statement of step
failed_lookup_counters(hl, ll, hl_total, ll_total) ==
    [ HL_step_count |-> hl, LL_step_count |-> ll,
      timesteps_HL |-> hl_total, timesteps_LL |-> ll_total ]

\* variant: the reset starts the totals again
reset_totals_cleared(hl_total, ll_total) ==
    [ timesteps_HL |-> 0, timesteps_LL |-> 0 ]

\* totals after CustomActions.reset, which assigns neither of them
reset_totals(hl_total, ll_total) ==
    [ timesteps_HL |-> hl_total, timesteps_LL |-> ll_total ]

TypeOK ==
    /\ policy_frequency \in PolicyFrequencies
    /\ pc \in {"idle", "loop", "fault"}
    /\ time \in 0..MaxTicks
    /\ timesteps_HL \in 0..MaxHL
    /\ timesteps_LL \in 0..MaxTicks
    /\ HL_step_count \in Nat /\ LL_step_count \in Nat
    /\ timesteps_HL \in Nat /\ timesteps_LL \in Nat
    /\ episode_count \in 0..MaxEpisodes

Init ==
    /\ policy_frequency \in PolicyFrequencies
    /\ \E l \in Lanes, s \in InitSpeeds : vehicle = env_vehicle(l, s)
    /\ time = 0
    /\ HL_step_count = 0
    /\ LL_step_count = 0
    /\ timesteps_HL = 0
    /\ timesteps_LL = 0
    /\ episode_count = 0
    /\ pc = "idle"
    /\ changer = NoChanger
    /\ tick = NoTick
    /\ cumulative_reward = 0
    /\ ret = NoReturn
    /\ call = NoCall
    /\ shaper = NoShaper

\* variant: every tick aims the controller again from the vehicle it sees
count_tick_retarget(c) ==
    IF c.kind = "SpeedChanger"
    THEN [c EXCEPT !.step_count = @ + 1,
                   !.desired_speed = vehicle.speed + c.change * SpeedScale]
    ELSE [c EXCEPT !.step_count = @ + 1,
                   !.destination_lane = LaneOf(vehicle.y) + c.change,
                   !.vehicle_posX = vehicle.x]

\* self.step_count += 1
count_tick(c) == [c EXCEPT !.step_count = @ + 1]

\* changer.step(): count the tick, choose the primitive action, advance the
\* simulator; the division by a zero speed raises out of the step call
changer_step(c, first, k) ==
    LET c1 == count_tick(c)
    IN  /\ changer' = c1
        /\ IF faults(c1, vehicle)
           THEN /\ pc' = "fault"
                /\ call' = [k EXCEPT !.active = FALSE]
                /\ UNCHANGED << vehicle, time, tick, cumulative_reward >>
           ELSE \E crash \in BOOLEAN :
                LET a == choose_action(c1, vehicle)
                    v == env_move(vehicle, a, policy_frequency, crash)
                    r == env_result(v, time + 1)
                IN  /\ vehicle' = v
                    /\ time' = time + 1
                    /\ tick' = r
                    /\ cumulative_reward' = IF first THEN r.reward
                                            ELSE accumulate(cumulative_reward, r.reward)
                    /\ pc' = "loop"
                    /\ call' = [k EXCEPT !.rewards = Append(@, r.reward),
                                         !.issued = Append(@, a),
                                         !.results = Append(@, r),
                                         !.ticks = @ + 1]

\* CustomActions.step(action) up to and including the first changer.step()
StepBegin(action) ==
    /\ pc = "idle"
    /\ timesteps_HL < MaxHL
    /\ timesteps_LL < MaxTicks
    /\ LET requested == subpolicies(action, vehicle)
           c == adjust(requested, vehicle)
           started == [ active    |-> TRUE,
                        returned  |-> FALSE,
                        action    |-> action,
                        requested |-> requested,
                        created   |-> c,
                        changer   |-> NoChanger,
                        done      |-> FALSE,
                        start     |-> vehicle,
                        HL0       |-> HL_step_count,
                        LL0       |-> LL_step_count,
                        rewards   |-> << >>,
                        issued    |-> << >>,
                        results   |-> << >>,
                        ticks     |-> 0,
                        n         |-> call.n + 1,
                        over      |-> call.over
                                        \/ (call.returned /\ ret.terminated) ]
       IN  changer_step(c, TRUE, started)
    /\ UNCHANGED << policy_frequency, HL_step_count, LL_step_count,
                    timesteps_HL, timesteps_LL, episode_count, ret, shaper >>

\* CustomActions.step(action) with an action id that is not a key of
\* self.subpolicies: the lookup raises KeyError out of the call
StepUnknown(action) ==
    /\ pc = "idle"
    /\ action \notin Actions
    /\ LET counters == failed_lookup_counters(HL_step_count, LL_step_count,
                                              timesteps_HL, timesteps_LL)
       IN  /\ HL_step_count' = counters.HL_step_count
           /\ LL_step_count' = counters.LL_step_count
           /\ timesteps_HL' = counters.timesteps_HL
           /\ timesteps_LL' = counters.timesteps_LL
    /\ pc' = "fault"
    /\ call' = [ NoCall EXCEPT !.action = action,
                               !.start = vehicle,
                               !.HL0 = HL_step_count,
                               !.LL0 = LL_step_count,
                               !.n = call.n + 1,
                               !.over = call.over
                                          \/ (call.returned /\ ret.terminated) ]
    /\ UNCHANGED << policy_frequency, vehicle, time, episode_count, changer,
                    tick, cumulative_reward, ret, shaper >>

\* one more iteration of the while loop: the condition holds, so
\* changer.step() runs again
LoopTick ==
    /\ pc = "loop"
    /\ timesteps_LL + changer.step_count < MaxTicks
    /\ loop_continues(changer, vehicle, policy_frequency, tick.terminated)
    /\ changer_step(changer, FALSE, call)
    /\ UNCHANGED << policy_frequency, HL_step_count, LL_step_count,
                    timesteps_HL, timesteps_LL, episode_count, ret, shaper >>

\* the while condition fails: the last evaluation of changer.done() leaves
\* its effect on the vehicle, the counters are updated and step returns
StepReturn ==
    /\ pc = "loop"
    /\ ~loop_continues(changer, vehicle, policy_frequency, tick.terminated)
    /\ LET v  == done_effect(changer, vehicle, policy_frequency)
           hl == add_HL(HL_step_count, changer)
           ll == add_LL(LL_step_count, changer)
       IN  /\ vehicle' = v
           /\ LL_step_count' = ll
           /\ timesteps_LL' = add_LL(timesteps_LL, changer)
           /\ HL_step_count' = hl
           /\ timesteps_HL' = add_HL(timesteps_HL, changer)
           /\ ret' = step_result(tick, cumulative_reward, hl, ll)
           /\ call' = [call EXCEPT !.active = FALSE, !.returned = TRUE,
                                   !.changer = changer,
                                   !.done = done(changer, vehicle, policy_frequency)]
    /\ pc' = "idle"
    /\ changer' = NoChanger
    /\ UNCHANGED << policy_frequency, time, episode_count, tick,
                    cumulative_reward, shaper >>

\* CustomActions.reset(): per-episode counters to zero, one more episode,
\* then env.reset()
Reset ==
    /\ pc = "idle"
    /\ episode_count < MaxEpisodes
    /\ LET counters == reset_counters(HL_step_count, LL_step_count, episode_count)
       IN  /\ HL_step_count' = counters.HL_step_count
           /\ LL_step_count' = counters.LL_step_count
           /\ episode_count' = counters.episode_count
    /\ \E l \in Lanes, s \in ResetSpeeds : vehicle' = env_vehicle(l, s)
    /\ time' = 0
    /\ tick' = NoTick
    /\ cumulative_reward' = 0
    /\ ret' = NoReturn
    /\ call' = NoCall
    /\ LET totals == reset_totals(timesteps_HL, timesteps_LL)
       IN  /\ timesteps_HL' = totals.timesteps_HL
           /\ timesteps_LL' = totals.timesteps_LL
    /\ UNCHANGED << policy_frequency, pc, changer, shaper >>

Next ==
    \/ \E action \in Actions : StepBegin(action)
    \/ \E action \in UnknownActions : StepUnknown(action)
    \/ LoopTick
    \/ StepReturn
    \/ Reset

Spec == Init /\ [][Next]_vars

(***************************************************************************)
(* Properties                                                              *)
(***************************************************************************)
\* a step call is running or has returned, and was asked for a lane change
LaneChangeRequested ==
    /\ call.active \/ call.returned
    /\ call.action \in {1, 2}

\* a step call is running or has returned, and was asked for a speed change
SpeedChangeRequested ==
    /\ call.active \/ call.returned
    /\ call.action \in {3, 4}

RequestedLane == LaneOf(call.start.y) + (IF call.action = 1 THEN -1 ELSE 1)

RequestedSpeed ==
    call.start.speed + (IF call.action = 3 THEN -1 ELSE 1) * SpeedScale

\* C1: a lane-change action whose destination lane is outside
\* [0, lanes_count - 1] is executed by a zero-change LaneChanger, and when
\* the macro-step has returned the vehicle is in the lane it started in.
C1_InfeasibleLaneChangeHoldsLane ==
    (LaneChangeRequested /\ RequestedLane \notin 0..(lanes_count - 1))
        => /\ call.created.kind = "LaneChanger"
           /\ call.created.change = 0
           /\ call.created.destination_lane = LaneOf(call.start.y)
           /\ (call.returned /\ ~ret.terminated)
                 => LaneOf(vehicle.y) = LaneOf(call.start.y)

C1_Witness ==
    /\ call.returned
    /\ call.action = 1
    /\ LaneOf(call.start.y) = 0
    /\ call.created.change = 0
    /\ call.ticks >= 1
    /\ LaneOf(vehicle.y) = 0

\* C2: a speed-change action whose destination speed is outside
\* [MIN_SPEED, MAX_SPEED] is executed by a zero-change SpeedChanger whose
\* desired speed is the speed at the start of the macro-step.
C2_InfeasibleSpeedChangeHoldsSpeed ==
    (SpeedChangeRequested
        /\ (RequestedSpeed < MIN_SPEED * SpeedScale
            \/ RequestedSpeed > MAX_SPEED * SpeedScale))
        => /\ call.created.kind = "SpeedChanger"
           /\ call.created.change = 0
           /\ call.created.desired_speed = call.start.speed

C2_Witness ==
    /\ call.returned
    /\ call.action = 4
    /\ call.start.speed = MAX_SPEED * SpeedScale
    /\ call.created.kind = "SpeedChanger"
    /\ call.created.change = 0
    /\ call.ticks >= 1

\* C3: lane_change_possible(change) is true exactly when the destination
\* lane is one of the lanes 0 .. lanes_count - 1: in lane 0 a change of -1
\* is refused and +1 accepted, in the rightmost lane +1 is refused and -1
\* accepted.
C3_LaneChangePossibleInclusive ==
    /\ \A change \in {-1, 0, 1} :
          lane_change_possible(vehicle, change)
              <=> (LaneOf(vehicle.y) + change \in 0..(lanes_count - 1))
    /\ LaneOf(vehicle.y) = 0
          => /\ ~lane_change_possible(vehicle, -1)
             /\ lane_change_possible(vehicle, 1)
    /\ LaneOf(vehicle.y) = lanes_count - 1
          => /\ ~lane_change_possible(vehicle, 1)
             /\ lane_change_possible(vehicle, -1)
    /\ (LaneChangeRequested /\ RequestedLane \in 0..(lanes_count - 1))
          => call.created = call.requested

C3_Witness ==
    /\ call.returned
    /\ call.action = 2
    /\ LaneOf(call.start.y) = lanes_count - 2
    /\ call.created.change = 1
    /\ LaneOf(vehicle.y) = lanes_count - 1
    /\ ~lane_change_possible(vehicle, 1)
    /\ lane_change_possible(vehicle, -1)

\* C4: speed_change_possible(change) is true exactly when
\* MIN_SPEED <= speed + change <= MAX_SPEED, bounds included: at MIN_SPEED
\* slowing down is refused and speeding up accepted, at MAX_SPEED slowing
\* down is accepted and speeding up refused.
C4_SpeedChangePossibleInclusive ==
    /\ \A change \in {-1, 0, 1} :
          speed_change_possible(vehicle, change)
              <=> /\ vehicle.speed + change * SpeedScale >= MIN_SPEED * SpeedScale
                  /\ vehicle.speed + change * SpeedScale <= MAX_SPEED * SpeedScale
    /\ vehicle.speed = MIN_SPEED * SpeedScale
          => /\ ~speed_change_possible(vehicle, -1)
             /\ speed_change_possible(vehicle, 1)
    /\ vehicle.speed = MAX_SPEED * SpeedScale
          => /\ speed_change_possible(vehicle, -1)
             /\ ~speed_change_possible(vehicle, 1)
    /\ (SpeedChangeRequested
          /\ RequestedSpeed >= MIN_SPEED * SpeedScale
          /\ RequestedSpeed <= MAX_SPEED * SpeedScale)
          => call.created = call.requested

C4_Witness ==
    /\ call.returned
    /\ call.action = 4
    /\ call.start.speed = (MAX_SPEED - 1) * SpeedScale
    /\ call.created.change = 1
    /\ call.created.desired_speed = MAX_SPEED * SpeedScale
    /\ vehicle.speed > call.start.speed
    /\ ~speed_change_possible(vehicle, 1)

\* the last step call has returned and was executed by a real lane change
LaneChangeReturned ==
    /\ call.returned
    /\ call.changer.kind = "LaneChanger"
    /\ call.changer.change # 0

\* C5: a feasible lane change that returns without termination leaves the
\* vehicle in lane initial_lane + change, with lateral offset strictly inside
\* (-1.5 / policy_frequency, 1.5 / policy_frequency), heading 0 and commanded
\* steering 0.
C5_LaneChangeCompletes ==
    (LaneChangeReturned /\ ~ret.terminated)
        => /\ LaneOf(vehicle.y) = LaneOf(call.start.y) + call.changer.change
           /\ 2 * policy_frequency * Abs(LaneOffset(vehicle.y)) < 3 * LatScale
           /\ vehicle.heading = 0
           /\ vehicle.steering.n = 0

C5_Witness ==
    /\ LaneChangeReturned
    /\ ~ret.terminated
    /\ call.action = 2
    /\ LaneOf(call.start.y) = 1
    /\ LaneOf(vehicle.y) = 2
    /\ LaneOffset(vehicle.y) # 0
    /\ call.ticks >= 3

\* the controller is the one built for action 0
ForwardChanger(c) ==
    /\ c.kind = "LaneChanger"
    /\ c.change = 0
    /\ c.target_distance = 10 * PosScale

\* C6: a forward-10m controller does not report completion while fewer than
\* 10 meters have been covered since it was created, and a forward
\* macro-step that returns without termination has advanced the vehicle by
\* at least 10 meters.
C6_ForwardNeedsDistance ==
    /\ (pc = "loop" /\ ForwardChanger(changer)
            /\ vehicle.x - changer.vehicle_posX < 10 * PosScale)
          => loop_continues(changer, vehicle, policy_frequency, FALSE)
    /\ (call.returned /\ call.action = 0 /\ ~ret.terminated)
          => vehicle.x - call.start.x >= 10 * PosScale

C6_Witness ==
    /\ call.returned
    /\ call.action = 0
    /\ ~ret.terminated
    /\ call.ticks >= 2
    /\ vehicle.x - call.start.x >= 10 * PosScale
    /\ LaneOffset(vehicle.y) = 0

\* the last step call has returned and was executed by a SpeedChanger
SpeedChangeReturned ==
    /\ call.returned
    /\ call.changer.kind = "SpeedChanger"

\* speed in (desired_speed - 1 / (2 * policy_frequency), desired_speed]
InHalvedHalfOpenInterval(c, v) ==
    /\ 2 * policy_frequency * (c.desired_speed - v.speed) < SpeedScale
    /\ v.speed <= c.desired_speed

\* speed in [desired_speed - 1 / policy_frequency, desired_speed]
InClosedInterval(c, v) ==
    (c.desired_speed - v.speed) \in 0..(SpeedScale \div policy_frequency)

\* C7 as stated: the speed controller reports done exactly for the speeds in
\* (desired_speed - tolerance, desired_speed], tolerance half a control
\* period, and done leaves the commanded acceleration at 0.
C7_DoneHalfOpenHalved ==
    SpeedChangeReturned
        => /\ call.done <=> InHalvedHalfOpenInterval(call.changer, vehicle)
           /\ call.done => vehicle.acceleration = 0

\* C7 amended: the speed controller reports done exactly for the speeds in
\* the closed interval [desired_speed - tolerance, desired_speed], tolerance
\* one whole control period 1 / policy_frequency; a speed macro-step that
\* returns without termination ends in that interval with the commanded
\* acceleration at 0.
C7_DoneClosedInterval ==
    SpeedChangeReturned
        => /\ call.done <=> InClosedInterval(call.changer, vehicle)
           /\ call.done => vehicle.acceleration = 0
           /\ ~ret.terminated => call.done

C7_Witness ==
    /\ SpeedChangeReturned
    /\ ~ret.terminated
    /\ call.changer.change = 1
    /\ policy_frequency * (call.changer.desired_speed - vehicle.speed) = SpeedScale
    /\ vehicle.acceleration = 0
    /\ call.ticks >= 2

\* C8: the reward returned by a step call is the sum of the rewards of all
\* the low-level ticks of that macro-step, each counted once.
C8_CumulativeRewardIsSum ==
    call.returned
        => /\ ret.cumulative_reward = SumSeq(call.rewards)
           /\ Len(call.rewards) = call.ticks
           /\ call.ticks = call.changer.step_count

C8_Witness ==
    /\ call.returned
    /\ Len(call.rewards) >= 3
    /\ \E i, j \in 1..Len(call.rewards) : call.rewards[i] # call.rewards[j]
    /\ ret.cumulative_reward > call.rewards[Len(call.rewards)]

\* C9: a step call that returns has added exactly 1 to HL_step_count, and
\* the counter does not move while the macro-step is ticking.
C9_HLStepCountPlusOne ==
    [][ /\ (pc = "loop" /\ pc' = "idle")
            => HL_step_count' = HL_step_count + 1
        /\ pc' # "idle" => HL_step_count' = HL_step_count ]_vars

C9_Witness ==
    /\ call.returned
    /\ call.ticks >= 3
    /\ call.created # call.requested
    /\ ret.terminated
    /\ HL_step_count = call.HL0 + 1

\* C10: once a tick has reported terminated the macro-step issues no further
\* tick: it returns terminated = True and adds to LL_step_count the number
\* of ticks executed so far.
C10_TerminationStopsLoop ==
    [][ (pc = "loop" /\ tick.terminated)
            => /\ pc' = "idle"
               /\ time' = time
               /\ call'.ticks = call.ticks
               /\ ret'.terminated
               /\ LL_step_count' = LL_step_count + call.ticks ]_vars

C10_Witness ==
    /\ LaneChangeReturned
    /\ ret.terminated
    /\ ~call.done
    /\ call.ticks = 2
    /\ LL_step_count = call.LL0 + 2
    /\ time = call.LL0 + 2

\* C11: once a tick has reported the time limit (truncated) the macro-step
\* issues no further tick and returns what the simulator produced on that
\* tick.
C11_TimeLimitStopsLoop ==
    [][ (pc = "loop" /\ tick.truncated)
            => /\ pc' = "idle"
               /\ time' = time
               /\ call'.ticks = call.ticks
               /\ ret'.truncated
               /\ ret'.obs = tick.obs ]_vars

\* the vehicle one tick later when nothing external happens
NextVehicle ==
    env_move(vehicle, choose_action(count_tick(changer), vehicle),
             policy_frequency, FALSE)

\* C12: every step call eventually returns.  A macro-step whose loop
\* condition holds and whose next tick leaves the vehicle exactly as it is
\* repeats that tick forever, so the claim requires that the tick loop is
\* never in such a state.
C12_EveryStepReturns ==
    (pc = "loop"
        /\ loop_continues(changer, vehicle, policy_frequency, tick.terminated)
        /\ ~faults(count_tick(changer), vehicle))
        => NextVehicle # vehicle

\* C13: a reset call leaves HL_step_count and LL_step_count at 0 and
\* episode_count one greater than before, whatever steps and resets
\* preceded it.
C13_ResetCounters ==
    [][ ((pc = "idle" /\ pc' = "idle") \/ episode_count' # episode_count)
            => /\ HL_step_count' = 0
               /\ LL_step_count' = 0
               /\ episode_count' = episode_count + 1 ]_vars

C13_Witness ==
    /\ episode_count = 1
    /\ HL_step_count = 0
    /\ LL_step_count = 0
    /\ timesteps_HL >= 2
    /\ timesteps_LL >= 3
    /\ time = 0

\* the result of the last low-level tick of the last step call
FinalTick == call.results[Len(call.results)]

\* C14: the observation, terminated, truncated and info returned by a step
\* call are those of the final low-level tick of the macro-step, info being
\* extended with the counters and the position.
C14_ReturnsFinalTick ==
    call.returned
        => /\ ret.obs = FinalTick.obs
           /\ ret.terminated = FinalTick.terminated
           /\ ret.truncated = FinalTick.truncated
           /\ ret.info.speed = FinalTick.info.speed
           /\ ret.info.crashed = FinalTick.info.crashed
           /\ ret.info.pos_x = FinalTick.obs.x
           /\ ret.info.pos_y = FinalTick.obs.y
           /\ ret.obs.x = vehicle.x /\ ret.obs.y = vehicle.y
           /\ ret.obs.vx = vehicle.speed

C14_Witness ==
    /\ call.returned
    /\ Len(call.results) >= 3
    /\ \A i \in 1..(Len(call.results) - 1) :
          /\ call.results[i].obs # FinalTick.obs
          /\ call.results[i].terminated # FinalTick.terminated
    /\ ret.terminated
    /\ ret.obs = FinalTick.obs

\* C15: there are exactly 5 high-level actions: 0 builds a lane/distance
\* controller with change 0 and target distance 10 m, 1 and 2 lane/distance
\* controllers with change -1 and +1 (no distance), 3 and 4 speed
\* controllers with delta -1 and +1.
C15_ActionMapping ==
    /\ Cardinality(Actions) = 5
    /\ (call.active \/ call.returned)
          => /\ call.action \in 0..4
             /\ call.action = 0
                   => /\ call.requested.kind = "LaneChanger"
                      /\ call.requested.change = 0
                      /\ call.requested.target_distance = 10 * PosScale
             /\ call.action = 1
                   => /\ call.requested.kind = "LaneChanger"
                      /\ call.requested.change = -1
                      /\ call.requested.target_distance = 0
             /\ call.action = 2
                   => /\ call.requested.kind = "LaneChanger"
                      /\ call.requested.change = 1
                      /\ call.requested.target_distance = 0
             /\ call.action = 3
                   => /\ call.requested.kind = "SpeedChanger"
                      /\ call.requested.change = -1
             /\ call.action = 4
                   => /\ call.requested.kind = "SpeedChanger"
                      /\ call.requested.change = 1

C15_Witness ==
    /\ call.returned
    /\ call.action = 1
    /\ call.changer.change = -1
    /\ ~ret.terminated
    /\ LaneOf(vehicle.y) = LaneOf(call.start.y) - 1

\* C16: the info returned by a step call carries HL_step_count equal to the
\* number of step calls since the last reset and LL_step_count equal to the
\* number of low-level ticks executed since that reset; every controller
\* starts counting at 0.
C16_InfoCounters ==
    /\ (call.active \/ call.returned) => call.created.step_count = 0
    /\ call.returned
          => /\ ret.info.HL_step_count = call.n
             /\ ret.info.LL_step_count = time
             /\ ret.info.HL_step_count = HL_step_count
             /\ ret.info.LL_step_count = LL_step_count

C16_Witness ==
    /\ call.returned
    /\ call.n = 2
    /\ call.ticks >= 2
    /\ call.LL0 >= 2
    /\ ret.info.HL_step_count = 2
    /\ ret.info.LL_step_count = call.LL0 + call.ticks

\* C17: every macro-step ticks its controller at least once, even when the
\* controller is already done when created; the loop ticks again only while
\* the controller is not done and the last tick was not terminated, and it
\* stops only when one of the two holds.
C17_LoopRunsToFirstDoneOrTerminated ==
    [][ /\ (pc = "idle" /\ pc' = "loop") => call'.ticks = 1
        /\ (pc = "loop" /\ pc' = "loop")
              => /\ ~done(changer, vehicle, policy_frequency)
                 /\ ~tick.terminated
                 /\ call'.ticks = call.ticks + 1
        /\ (pc = "loop" /\ pc' = "idle")
              => /\ done(changer, vehicle, policy_frequency) \/ tick.terminated
                 /\ call'.ticks = call.ticks
                 /\ call'.ticks >= 1 ]_vars

C17_Witness ==
    /\ call.returned
    /\ done(call.created, call.start, policy_frequency)
    /\ call.ticks = 1
    /\ call.done
    /\ ~ret.terminated

\* the controller as it was built for the running macro-step keeps its aim
TargetsOf(c) ==
    IF c.kind = "SpeedChanger"
    THEN /\ c.desired_speed = call.start.speed + c.change * SpeedScale
         /\ c.desired_speed = call.created.desired_speed
    ELSE /\ c.destination_lane = LaneOf(call.start.y) + c.change
         /\ c.vehicle_posX = call.start.x
         /\ c.destination_lane = call.created.destination_lane
         /\ c.vehicle_posX = call.created.vehicle_posX

\* C18: the target of a controller is fixed when it is built: desired_speed
\* stays speed at construction + delta, destination_lane and the start
\* position x stay at their construction values, over all the ticks of the
\* macro-step, whatever the simulator does to the vehicle.
C18_TargetsFixed ==
    /\ pc = "loop"
          => /\ changer.kind = call.created.kind
             /\ changer.change = call.created.change
             /\ TargetsOf(changer)
    /\ call.returned
          => /\ call.changer.kind = call.created.kind
             /\ call.changer.change = call.created.change
             /\ TargetsOf(call.changer)

C18_Witness ==
    /\ pc = "loop"
    /\ changer.kind = "SpeedChanger"
    /\ changer.change = 1
    /\ call.ticks >= 2
    /\ vehicle.speed > call.start.speed
    /\ vehicle.x # call.start.x
    /\ changer.desired_speed = call.start.speed + SpeedScale

\* the primitive action handed to the simulator by the latest tick
LastIssued(k) == k.issued[Len(k.issued)]

\* C19: a tick of a speed controller hands the simulator [acceleration,
\* steering] with acceleration +0.1 when the speed is below desired_speed,
\* -0.1 when above and 0 when equal, the steering being the one currently
\* commanded; the tick adds exactly 1 to the controller's step_count.
C19_SpeedTickCommand ==
    [][ (time' = time + 1 /\ changer'.kind = "SpeedChanger")
            => /\ LastIssued(call').acceleration
                     = (IF vehicle.speed < changer'.desired_speed THEN 1
                        ELSE IF vehicle.speed > changer'.desired_speed THEN -1
                        ELSE 0)
               /\ LastIssued(call').steering = vehicle.steering
               /\ Len(call'.issued) = changer'.step_count
               /\ changer'.step_count
                     = (IF pc = "idle" THEN 0 ELSE changer.step_count) + 1 ]_vars

C19_Witness ==
    /\ pc = "loop"
    /\ changer.kind = "SpeedChanger"
    /\ changer.change = -1
    /\ changer.step_count = 2
    /\ call.issued[1].acceleration = -1
    /\ call.issued[2].acceleration = -1
    /\ vehicle.speed < call.start.speed

\* C20: a speed macro-action of delta 0 (the hold-speed substitute
\* included) commands acceleration 0 on its first tick and is complete
\* after exactly one low-level tick, the speed being the one at
\* construction.
C20_ZeroDeltaOneTick ==
    /\ (pc = "loop" /\ changer.kind = "SpeedChanger" /\ changer.change = 0)
          => /\ call.ticks = 1
             /\ call.issued[1].acceleration = 0
             /\ vehicle.speed = call.start.speed
             /\ done(changer, vehicle, policy_frequency)
    /\ (call.returned /\ call.changer.kind = "SpeedChanger"
            /\ call.changer.change = 0)
          => /\ call.ticks = 1
             /\ call.changer.step_count = 1
             /\ call.issued[1].acceleration = 0
             /\ vehicle.speed = call.start.speed

C20_Witness ==
    /\ call.returned
    /\ call.action = 4
    /\ call.changer.kind = "SpeedChanger"
    /\ call.changer.change = 0
    /\ call.start.speed = MAX_SPEED * SpeedScale
    /\ call.ticks = 1
    /\ ~ret.terminated
    /\ vehicle.speed = MAX_SPEED * SpeedScale

\* C21: a tick of a lane/distance controller hands the simulator
\* [acceleration, steering] with steering +0.5/speed when destination_lane
\* is to the right of the current lane, -0.5/speed when it is to the left
\* and 0 when the vehicle is in the destination lane, the acceleration
\* being the one currently commanded.
C21_LaneTickCommand ==
    [][ (time' = time + 1 /\ changer'.kind = "LaneChanger")
            => /\ LastIssued(call').steering
                     = (IF changer'.destination_lane > LaneOf(vehicle.y)
                        THEN [n |-> 1, d |-> vehicle.speed]
                        ELSE IF changer'.destination_lane < LaneOf(vehicle.y)
                        THEN [n |-> -1, d |-> vehicle.speed]
                        ELSE [n |-> 0, d |-> 1])
               /\ LastIssued(call').acceleration = vehicle.acceleration
               /\ vehicle'.steering = LastIssued(call').steering
               /\ vehicle'.acceleration = LastIssued(call').acceleration ]_vars

C21_Witness ==
    /\ call.returned
    /\ call.changer.kind = "LaneChanger"
    /\ call.changer.change = 1
    /\ call.ticks >= 3
    /\ call.issued[1].steering = [n |-> 1, d |-> call.start.speed]
    /\ call.issued[call.ticks].steering = NoSteering
    /\ call.done

\* C22: at standstill a tick of a lane/distance controller whose vehicle is
\* not in the destination lane still issues a steering command: the tick is
\* executed by the simulator and the step call goes on.
C22_StandstillTickGuarded ==
    [][ (/\ changer' # changer
         /\ changer'.kind = "LaneChanger"
         /\ changer'.destination_lane # LaneOf(vehicle.y)
         /\ vehicle.speed = 0)
            => (pc' = "loop" /\ time' = time + 1) ]_vars

\* C25: after any sequence of step and reset calls
\* 0 <= HL_step_count <= LL_step_count and timesteps_HL <= timesteps_LL.
C25_HLAtMostLL ==
    /\ 0 <= HL_step_count
    /\ HL_step_count <= LL_step_count
    /\ timesteps_HL <= timesteps_LL

C25_Witness ==
    /\ episode_count = 1
    /\ call.returned
    /\ HL_step_count = 1
    /\ LL_step_count = 1
    /\ timesteps_HL = 2
    /\ timesteps_LL > 2

\* C26: reset leaves timesteps_HL and timesteps_LL unchanged; a step call
\* that returns adds 1 to timesteps_HL and its ticks to timesteps_LL, and
\* nothing else moves them, so they never decrease and stay at or above
\* HL_step_count and LL_step_count.
C26_TotalsSurviveReset ==
    [][ /\ episode_count' # episode_count
              => /\ timesteps_HL' = timesteps_HL
                 /\ timesteps_LL' = timesteps_LL
        /\ (pc = "loop" /\ pc' = "idle")
              => /\ timesteps_HL' = timesteps_HL + 1
                 /\ timesteps_LL' = timesteps_LL + call.ticks
        /\ ~(pc = "loop" /\ pc' = "idle")
              => /\ timesteps_HL' = timesteps_HL
                 /\ timesteps_LL' = timesteps_LL
        /\ timesteps_HL' >= HL_step_count'
        /\ timesteps_LL' >= LL_step_count' ]_vars

C26_Witness ==
    /\ episode_count = 1
    /\ timesteps_HL = 2
    /\ timesteps_LL >= 4
    /\ HL_step_count = 0
    /\ LL_step_count = 0
    /\ time = 0

\* C27: the controller that is ticked has a feasible target: its
\* destination_lane is a lane of the road (lane/distance kind) or its
\* desired_speed is within [MIN_SPEED, MAX_SPEED] (speed kind), and it has
\* the kind of the requested controller.
C27_TickedTargetFeasible ==
    (call.active \/ call.returned)
        => /\ leftmost_lane <= LaneOf(call.start.y)
           /\ LaneOf(call.start.y) <= rightmost_lane
           /\ MIN_SPEED * SpeedScale <= call.start.speed
           /\ call.start.speed <= MAX_SPEED * SpeedScale
           /\ call.created.kind = call.requested.kind
           /\ call.created.kind = "LaneChanger"
                 => /\ leftmost_lane <= call.created.destination_lane
                    /\ call.created.destination_lane <= rightmost_lane
           /\ call.created.kind = "SpeedChanger"
                 => /\ MIN_SPEED * SpeedScale <= call.created.desired_speed
                    /\ call.created.desired_speed <= MAX_SPEED * SpeedScale
           /\ pc = "loop" => /\ changer.kind = call.created.kind
                             /\ TargetsOf(changer)

C27_Witness ==
    /\ call.returned
    /\ call.action = 2
    /\ call.requested.destination_lane = rightmost_lane + 1
    /\ call.created.kind = "LaneChanger"
    /\ call.created.destination_lane = rightmost_lane
    /\ call.changer.destination_lane = rightmost_lane

\* C28: the episode starting with the vehicle centred, heading 0 and steering
\* command 0, every step call of the episode (call.over marks the calls made
\* after the episode has terminated) that returns with terminated = False
\* leaves the vehicle with its lateral offset strictly inside
\* (-1.5 / policy_frequency, 1.5 / policy_frequency), heading 0 and
\* steering command 0; so every controller built by the next call starts
\* from such a vehicle.
C28_ReturnsAlignedStraight ==
    /\ (call.returned /\ ~call.over /\ ~ret.terminated)
          => /\ WithinLaneTolerance(LaneOffset(vehicle.y), policy_frequency)
             /\ vehicle.heading = 0
             /\ vehicle.steering = NoSteering
    /\ ((call.active \/ call.returned) /\ ~call.over)
          => /\ WithinLaneTolerance(LaneOffset(call.start.y), policy_frequency)
             /\ call.start.heading = 0
             /\ call.start.steering = NoSteering

C28_Witness ==
    /\ call.returned
    /\ ~call.over
    /\ ~ret.terminated
    /\ call.n = 2
    /\ call.changer.kind = "SpeedChanger"
    /\ LaneOffset(call.start.y) # 0
    /\ call.start.x > 0
    /\ call.start.heading = 0
    /\ call.start.steering = NoSteering
    /\ LaneOffset(vehicle.y) = LaneOffset(call.start.y)
    /\ vehicle.heading = 0
    /\ vehicle.steering = NoSteering

\* C29: a step call with an action id outside 0..4 fails at the lookup,
\* before any controller is created: no tick is issued to the simulator and
\* HL_step_count, LL_step_count, timesteps_HL and timesteps_LL are
\* unchanged.
C29_UnknownActionFailsFirst ==
    [][ (pc = "idle" /\ call' # call /\ call'.action \notin Actions)
            => /\ pc' = "fault"
               /\ ~call'.returned
               /\ call'.requested = NoChanger
               /\ call'.created = NoChanger
               /\ changer' = changer
               /\ call'.issued = << >>
               /\ time' = time
               /\ vehicle' = vehicle
               /\ HL_step_count' = HL_step_count
               /\ LL_step_count' = LL_step_count
               /\ timesteps_HL' = timesteps_HL
               /\ timesteps_LL' = timesteps_LL ]_vars

C29_Witness ==
    /\ pc = "fault"
    /\ call.action = 5
    /\ call.n = 2
    /\ call.ticks = 0
    /\ HL_step_count = 1
    /\ LL_step_count >= 2
    /\ time = LL_step_count

(***************************************************************************)
(* The reward wrapper on its own                                           *)
(***************************************************************************)
RewardInit ==
    /\ policy_frequency \in PolicyFrequencies
    /\ vehicle = env_vehicle(0, 0)
    /\ time = 0
    /\ HL_step_count = 0
    /\ LL_step_count = 0
    /\ timesteps_HL = 0
    /\ timesteps_LL = 0
    /\ episode_count = 0
    /\ pc = "idle"
    /\ changer = NoChanger
    /\ tick = NoTick
    /\ cumulative_reward = 0
    /\ ret = NoReturn
    /\ call = NoCall
    /\ \E v \in RewardVehicles, normalize \in BOOLEAN :
          shaper = CustomReward(v, normalize)

\* CustomReward.step: the simulator advances (the vehicle may crash), then
\* reward() computes the two components and the final reward
CustomReward_step ==
    /\ \E crash \in BOOLEAN :
          LET v == [shaper.vehicle EXCEPT !.crashed = @ \/ crash]
              right_lane == calculate_lane_reward(v, policy_frequency)
              high_speed == calculate_speed_reward(v)
          IN  shaper' = [ shaper EXCEPT
                            !.vehicle = v,
                            !.right_lane_reward = right_lane,
                            !.high_speed_reward = high_speed,
                            !.reward = compute_final_reward(
                                           v, right_lane, high_speed,
                                           shaper.normalize_reward),
                            !.stepped = TRUE ]
    /\ UNCHANGED << policy_frequency, vehicle, time, HL_step_count,
                    LL_step_count, timesteps_HL, timesteps_LL, episode_count,
                    pc, changer, tick, cumulative_reward, ret, call >>

RewardNext == CustomReward_step

RewardSpec == RewardInit /\ [][RewardNext]_vars

\* C23: the shaped reward of a tick is 0 whenever the vehicle is off-road or
\* crashed, whatever the two components are and with or without
\* normalization.
C23_OffRoadOrCrashedZero ==
    (shaper.stepped /\ (shaper.vehicle.crashed \/ ~OnRoad(shaper.vehicle.y)))
        => shaper.reward = 0

C23_Witness ==
    /\ shaper.stepped
    /\ shaper.vehicle.crashed
    /\ OnRoad(shaper.vehicle.y)
    /\ shaper.right_lane_reward > 0
    /\ shaper.high_speed_reward > 0
    /\ shaper.normalize_reward
    /\ shaper.reward = 0

\* C24: the speed component lies in [0, 1]; it is the linear map of the
\* forward speed from reward_speed_range to [0, 1] when that map is in
\* [0, 1], 0 when the map is below 0, and 0 when the map is above 1.
C24_SpeedComponent ==
    shaper.stepped
        => /\ 0 <= shaper.high_speed_reward
           /\ shaper.high_speed_reward <= SpeedOne
           /\ (0 <= scaled_speed(shaper.vehicle)
                  /\ scaled_speed(shaper.vehicle) <= SpeedOne)
                 => shaper.high_speed_reward = scaled_speed(shaper.vehicle)
           /\ scaled_speed(shaper.vehicle) < 0
                 => shaper.high_speed_reward = 0
           /\ scaled_speed(shaper.vehicle) > SpeedOne
                 => shaper.high_speed_reward = 0

C24_Witness ==
    /\ shaper.stepped
    /\ shaper.vehicle.speed = 35 * SpeedScale
    /\ shaper.vehicle.cos_heading = CosScale
    /\ scaled_speed(shaper.vehicle) > SpeedOne
    /\ shaper.high_speed_reward = 0
    /\ ~shaper.vehicle.crashed
    /\ OnRoad(shaper.vehicle.y)

(***************************************************************************)
(* LaneChanger.done on its own                                             *)
(***************************************************************************)
DoneSpeed == 25 * SpeedScale

\* vehicles in the middle of a manoeuvre: any lane, centred or 1 m / 2 m
\* off the centre, any heading, steering straight, right or left
DoneVehicles ==
    { [ env_vehicle(l, DoneSpeed) EXCEPT
            !.x = x, !.y = @ + o * LatScale, !.heading = h, !.steering = s ] :
        l \in Lanes, o \in {0, 1, 2}, x \in {0, 10 * PosScale}, h \in -1..1,
        s \in { NoSteering, [n |-> 1, d |-> DoneSpeed],
                [n |-> -1, d |-> DoneSpeed] } }

\* controllers built at x = 0 in lane l for the three changes, with and
\* without a distance to cover
DoneChangers ==
    { LaneChanger(env_vehicle(l, DoneSpeed), change, distance) :
        l \in {1, 2}, change \in -1..1, distance \in {0, 10 * PosScale} }

DoneInit ==
    /\ policy_frequency \in PolicyFrequencies
    /\ vehicle \in DoneVehicles
    /\ changer \in DoneChangers
    /\ time = 0
    /\ HL_step_count = 0
    /\ LL_step_count = 0
    /\ timesteps_HL = 0
    /\ timesteps_LL = 0
    /\ episode_count = 0
    /\ pc = "loop"
    /\ tick = NoTick
    /\ cumulative_reward = 0
    /\ ret = NoReturn
    /\ call = NoCall
    /\ shaper = NoShaper

\* one evaluation of changer.done(): call.start keeps the vehicle as it was,
\* call.done the value returned, call.changer the controller asked
LaneChanger_done_call ==
    /\ vehicle' = LaneChanger_done_effect(changer, vehicle, policy_frequency)
    /\ call' = [ call EXCEPT
                   !.start = vehicle,
                   !.changer = changer,
                   !.done = LaneChanger_done(changer, vehicle, policy_frequency) ]
    /\ UNCHANGED << policy_frequency, time, HL_step_count, LL_step_count,
                    timesteps_HL, timesteps_LL, episode_count, pc, changer,
                    tick, cumulative_reward, ret, shaper >>

DoneNext == LaneChanger_done_call

DoneSpec == DoneInit /\ [][DoneNext]_vars

\* C30: LaneChanger.done leaves the vehicle's heading and commanded steering
\* as they are whenever change = 0, whatever it returns, and whenever it
\* returns False for change # 0; only a completed lane change (change # 0,
\* done = True) resets them to 0.
C30_DoneWritesOnlyOnCompletedChange ==
    call.changer.kind = "LaneChanger"
        => IF call.changer.change # 0 /\ call.done
           THEN /\ vehicle.heading = 0
                /\ vehicle.steering = NoSteering
                /\ vehicle = [ call.start EXCEPT !.heading = 0,
                                                 !.steering = NoSteering ]
           ELSE /\ vehicle.heading = call.start.heading
                /\ vehicle.steering = call.start.steering
                /\ vehicle = call.start

C30_Witness ==
    /\ call.changer.kind = "LaneChanger"
    /\ call.changer.change = 0
    /\ call.done
    /\ call.start.heading # 0
    /\ call.start.steering # NoSteering
    /\ vehicle.heading = call.start.heading
    /\ vehicle.steering = call.start.steering
====
